---- MODULE Spec2Model ----
(***************************************************************************)
(* Model of the dataset download scripts.                                  *)
(*   drivaerml/download.py : _download_stream, download_direct_or_parts,   *)
(*                           process_run and the __main__ loop             *)
(*   airfrans/download.py  : download_and_extract                          *)
(* The remote hosts are the environment: every HTTP response is an input   *)
(* drawn from the outcomes the requests library can deliver.               *)
(***************************************************************************)
EXTENDS Integers, Sequences, FiniteSets, TLC

(* ---------------- bounds ---------------- *)
MaxParts == 3
MaxCalls == 3
MaxOrderParts == 101
ChunksPerFile == 2
MaxEntries == 2
MaxAirCalls == 3

(* ---------------- program constants ---------------- *)
RUN_IDS == <<1>>
FILE_PATTERNS == <<"drivaer_%d.stl", "force_mom_%d.csv", "volume_%d.vtu">>
PadWidth == 2
Radix == 10
DotChar == 46
ZeroChar == 48
PartTail == <<46, 112, 97, 114, 116>>

(* ---------------- remote files and local file contents ---------------- *)
\* The logical file itself; fragment files are named by their index 0, 1, ...
Direct == 0 - 1

\* The body the remote serves for file f, as the chunks iter_content yields.
Body(f) == [c \in 1..ChunksPerFile |-> <<f, c>>]

NoFile == [exists |-> FALSE, data |-> <<>>]

FileOf(d) == [exists |-> TRUE, data |-> d]

Take(s, n) == SubSeq(s, 1, n)

(* ---------------- HTTP outcomes ---------------- *)
\* requests.head: "exc" a network exception, "404", "200len" status 200 with a
\* parsable content-length, "200nolen" status 200 without the header,
\* "200badlen" status 200 with an unparsable header, "other" any other status.
HeadOutcomes == {"exc", "404", "200len", "200nolen", "200badlen", "other"}

\* requests.get: "200" a complete body, "404", "err" another unsuccessful
\* status, "exc" a network failure before the response, "drop" status 200 and
\* a network failure while the body is being streamed.
GetOutcomes == {"200", "404", "err", "exc", "drop"}

\* What a host can answer for a file it holds or does not hold.
HeadFor(held) == IF held THEN HeadOutcomes ELSE {"exc", "404", "other"}

GetFor(held) == IF held THEN {"200", "err", "exc", "drop"} ELSE {"404", "err", "exc"}

(* ---------------- _download_stream ---------------- *)
TotalSize(head, body) == IF head = "200len" THEN Len(body) ELSE 0

\* Variant: a 404 on the GET goes through raise_for_status.
DownloadStream_Raise404(head, get, got, body, old) ==
  IF head = "404"
    THEN [ret |-> "false", file |-> old, opened |-> FALSE, nreq |-> 1, progress |-> 0]
  ELSE IF get \in {"404", "err", "exc"}
    THEN [ret |-> "raise", file |-> old, opened |-> FALSE, nreq |-> 2, progress |-> 0]
  ELSE IF get = "drop"
    THEN [ret |-> "raise", file |-> FileOf(Take(body, got)), opened |-> TRUE, nreq |-> 2,
          progress |-> IF TotalSize(head, body) # 0 THEN got ELSE 0]
  ELSE [ret |-> "true", file |-> FileOf(body), opened |-> TRUE, nreq |-> 2,
        progress |-> IF TotalSize(head, body) # 0 THEN Len(body) ELSE 0]

\* Variant: every unsuccessful GET status is reported as not found.
DownloadStream_SwallowErr(head, get, got, body, old) ==
  IF head = "404"
    THEN [ret |-> "false", file |-> old, opened |-> FALSE, nreq |-> 1, progress |-> 0]
  ELSE IF get \in {"404", "err"}
    THEN [ret |-> "false", file |-> old, opened |-> FALSE, nreq |-> 2, progress |-> 0]
  ELSE IF get = "exc"
    THEN [ret |-> "raise", file |-> old, opened |-> FALSE, nreq |-> 2, progress |-> 0]
  ELSE IF get = "drop"
    THEN [ret |-> "raise", file |-> FileOf(Take(body, got)), opened |-> TRUE, nreq |-> 2,
          progress |-> IF TotalSize(head, body) # 0 THEN got ELSE 0]
  ELSE [ret |-> "true", file |-> FileOf(body), opened |-> TRUE, nreq |-> 2,
        progress |-> IF TotalSize(head, body) # 0 THEN Len(body) ELSE 0]

\* Variant: the exception of the HEAD request is not caught.
DownloadStream_HeadFatal(head, get, got, body, old) ==
  IF head = "exc"
    THEN [ret |-> "raise", file |-> old, opened |-> FALSE, nreq |-> 1, progress |-> 0]
  ELSE IF head = "404"
    THEN [ret |-> "false", file |-> old, opened |-> FALSE, nreq |-> 1, progress |-> 0]
  ELSE IF get = "404"
    THEN [ret |-> "false", file |-> old, opened |-> FALSE, nreq |-> 2, progress |-> 0]
  ELSE IF get \in {"err", "exc"}
    THEN [ret |-> "raise", file |-> old, opened |-> FALSE, nreq |-> 2, progress |-> 0]
  ELSE IF get = "drop"
    THEN [ret |-> "raise", file |-> FileOf(Take(body, got)), opened |-> TRUE, nreq |-> 2,
          progress |-> IF TotalSize(head, body) # 0 THEN got ELSE 0]
  ELSE [ret |-> "true", file |-> FileOf(body), opened |-> TRUE, nreq |-> 2,
        progress |-> IF TotalSize(head, body) # 0 THEN Len(body) ELSE 0]

\* head, get: the outcomes of the two requests; got: chunks written before a
\* drop; body: the remote body; old: the file now at dest.
\* ret is "true", "false" or "raise"; file is dest afterwards; opened tells
\* whether dest was opened for writing; nreq is the number of requests issued;
\* progress the amount reported to the progress bar.
DownloadStream(head, get, got, body, old) ==
  IF head = "404"
    THEN [ret |-> "false", file |-> old, opened |-> FALSE, nreq |-> 1, progress |-> 0]
  ELSE IF get = "404"
    THEN [ret |-> "false", file |-> old, opened |-> FALSE, nreq |-> 2, progress |-> 0]
  ELSE IF get \in {"err", "exc"}
    THEN [ret |-> "raise", file |-> old, opened |-> FALSE, nreq |-> 2, progress |-> 0]
  ELSE IF get = "drop"
    THEN [ret |-> "raise", file |-> FileOf(Take(body, got)), opened |-> TRUE, nreq |-> 2,
          progress |-> IF TotalSize(head, body) # 0 THEN got ELSE 0]
  ELSE [ret |-> "true", file |-> FileOf(body), opened |-> TRUE, nreq |-> 2,
        progress |-> IF TotalSize(head, body) # 0 THEN Len(body) ELSE 0]

(* ---------------- fragment names and their order ---------------- *)
RECURSIVE DecDigits(_)
DecDigits(n) == IF n < Radix THEN <<n>> ELSE DecDigits(n \div Radix) \o <<n % Radix>>

RECURSIVE PadLeft(_)
PadLeft(d) == IF Len(d) >= PadWidth THEN d ELSE PadLeft(<<0>> \o d)

\* f".{part_idx:02d}.part" as character codes.
PartSuffix(idx) ==
  <<DotChar>> \o [i \in 1..Len(PadLeft(DecDigits(idx))) |-> ZeroChar + PadLeft(DecDigits(idx))[i]]
              \o PartTail

\* str.__lt__: lexicographic order of character codes.
RECURSIVE StrLess(_, _)
StrLess(a, b) ==
  IF b = <<>> THEN FALSE
  ELSE IF a = <<>> THEN TRUE
  ELSE IF Head(a) # Head(b) THEN Head(a) < Head(b)
  ELSE StrLess(Tail(a), Tail(b))

\* Path.__lt__ for two fragment paths of one directory and one logical name.
PathLess(i, j) == StrLess(PartSuffix(i), PartSuffix(j))

RECURSIVE InsertSorted(_, _)
InsertSorted(s, x) ==
  IF s = <<>> THEN <<x>>
  ELSE IF PathLess(x, s[Len(s)]) THEN Append(InsertSorted(Take(s, Len(s) - 1), x), s[Len(s)])
  ELSE Append(s, x)

\* sorted(part_paths)
RECURSIVE Sorted(_)
Sorted(s) == IF s = <<>> THEN <<>> ELSE InsertSorted(Sorted(Take(s, Len(s) - 1)), s[Len(s)])

\* The bytes the assembly loop writes: each fragment file read in order.
RECURSIVE Concat(_, _)
Concat(order, files) ==
  IF order = <<>> THEN <<>>
  ELSE Concat(Take(order, Len(order) - 1), files) \o files[order[Len(order)]]

Range(s) == {s[i] : i \in 1..Len(s)}

Upto(n) == [i \in 1..n |-> i - 1]

VARIABLES
  remoteDirect, remoteParts,
  dest, partFiles,
  pc, part_idx, part_paths,
  attempts, lastHead, lastGet, lastRet, lastProgress,
  nreq, created, result, diag, callsLeft, startedWithDest,
  driver, run_pos, pat_pos, attempted,
  zip, extracted, archive, airpc, airreq, airresult, airStart, airExtracts, airPrev, airCalls

dvars == <<remoteDirect, remoteParts, dest, partFiles, pc, part_idx, part_paths,
           attempts, lastHead, lastGet, lastRet, lastProgress,
           nreq, created, result, diag, callsLeft, startedWithDest>>

bvars == <<driver, run_pos, pat_pos, attempted>>

avars == <<zip, extracted, archive, airpc, airreq, airresult, airStart, airExtracts, airPrev, airCalls>>

vars == <<dvars, bvars, avars>>

(* ---------------- initial states ---------------- *)
NoParts == <<>>

\* No call of download_direct_or_parts has started.
HandlerIdle ==
  /\ pc = "idle" /\ part_idx = 0 /\ part_paths = <<>>
  /\ attempts = <<>> /\ lastHead = "none" /\ lastGet = "none" /\ lastRet = "none"
  /\ lastProgress = 0
  /\ nreq = 0 /\ created = {} /\ result = "none" /\ diag = FALSE
  /\ startedWithDest = FALSE

DriverOff == driver = "off" /\ run_pos = 0 /\ pat_pos = 0 /\ attempted = {}

AirOff ==
  /\ zip = "absent" /\ extracted = [exists |-> FALSE, entries |-> {}]
  /\ archive = {} /\ airpc = "idle" /\ airreq = 0 /\ airresult = "none"
  /\ airStart = [zip |-> FALSE, dir |-> FALSE] /\ airExtracts = 0
  /\ airPrev = "none" /\ airCalls = 0

\* One target on a clean disk, fetched MaxCalls times.
Init ==
  /\ remoteDirect \in BOOLEAN /\ remoteParts \in 0..MaxParts
  /\ dest = NoFile /\ partFiles = NoParts
  /\ HandlerIdle /\ callsLeft = MaxCalls
  /\ DriverOff /\ AirOff

(* ---------------- download_direct_or_parts ---------------- *)
\* Variant: the scan starts one index late.
FirstIndex_One == 2 - 1

\* count(0)
FirstIndex == 0

\* Per-call bookkeeping reset when a call starts.
CallStart ==
  /\ pc = "idle" /\ callsLeft > 0
  /\ callsLeft' = callsLeft - 1
  /\ startedWithDest' = dest.exists

\* Variant: the existence check never short-circuits.
AlreadyThere_Never == FALSE

\* dest_path.exists()
AlreadyThere == dest.exists

\* dest exists: print and return.
SkipExisting ==
  /\ CallStart
  /\ AlreadyThere
  /\ result' = "AlreadyPresent"
  /\ attempts' = <<>> /\ nreq' = 0 /\ created' = {} /\ diag' = FALSE
  /\ lastHead' = "none" /\ lastGet' = "none" /\ lastRet' = "none" /\ lastProgress' = 0
  /\ part_idx' = 0 /\ part_paths' = <<>>
  /\ UNCHANGED <<remoteDirect, remoteParts, dest, partFiles, pc>>
  /\ UNCHANGED <<bvars, avars>>

\* dest does not exist: stream the logical file into dest.
DirectDownload ==
  /\ CallStart
  /\ ~AlreadyThere
  /\ \E head \in HeadFor(remoteDirect), get \in GetFor(remoteDirect), got \in 0..(ChunksPerFile - 1) :
       LET r == DownloadStream(head, get, got, Body(Direct), dest) IN
         /\ dest' = r.file
         /\ attempts' = <<Direct>>
         /\ nreq' = r.nreq
         /\ created' = IF r.opened THEN {Direct} ELSE {}
         /\ lastHead' = head /\ lastGet' = get /\ lastRet' = r.ret
         /\ lastProgress' = r.progress
         /\ pc' = IF r.ret = "false" THEN "parts" ELSE "idle"
         /\ result' = CASE r.ret = "true" -> "Downloaded"
                        [] r.ret = "false" -> "none"
                        [] OTHER -> "raised"
  /\ diag' = FALSE /\ part_idx' = FirstIndex /\ part_paths' = <<>>
  /\ UNCHANGED <<remoteDirect, remoteParts, partFiles>>
  /\ UNCHANGED <<bvars, avars>>

PartFile(i) == IF i \in DOMAIN partFiles THEN FileOf(partFiles[i]) ELSE NoFile

\* One round of the count(0) loop: stream fragment part_idx into its part file.
FetchPart ==
  /\ pc = "parts"
  /\ \E head \in HeadFor(part_idx < remoteParts), get \in GetFor(part_idx < remoteParts),
        got \in 0..(ChunksPerFile - 1) :
       LET r == DownloadStream(head, get, got, Body(part_idx), PartFile(part_idx)) IN
         /\ partFiles' = IF r.file.exists
                           THEN [i \in DOMAIN partFiles \cup {part_idx} |->
                                   IF i = part_idx THEN r.file.data ELSE partFiles[i]]
                           ELSE partFiles
         /\ attempts' = Append(attempts, part_idx)
         /\ nreq' = nreq + r.nreq
         /\ created' = IF r.opened THEN created \cup {part_idx} ELSE created
         /\ lastHead' = head /\ lastGet' = get /\ lastRet' = r.ret
         /\ lastProgress' = r.progress
         /\ part_paths' = IF r.ret = "true" THEN Append(part_paths, part_idx) ELSE part_paths
         /\ part_idx' = IF r.ret = "true" THEN part_idx + 1 ELSE part_idx
         /\ pc' = CASE r.ret = "true" -> "parts"
                    [] r.ret = "false" -> "scanned"
                    [] OTHER -> "idle"
         /\ result' = IF r.ret = "raise" THEN "raised" ELSE "none"
  /\ UNCHANGED <<remoteDirect, remoteParts, dest, diag, callsLeft, startedWithDest>>
  /\ UNCHANGED <<bvars, avars>>

\* The loop found no fragment: diagnostic on stderr, return.
NoPartsFound ==
  /\ pc = "scanned"
  /\ part_paths = <<>>
  /\ diag' = TRUE
  /\ result' = "NotFound"
  /\ pc' = "idle"
  /\ UNCHANGED <<remoteDirect, remoteParts, dest, partFiles, part_idx, part_paths,
                 attempts, lastHead, lastGet, lastRet, lastProgress, nreq, created,
                 callsLeft, startedWithDest>>
  /\ UNCHANGED <<bvars, avars>>

\* Variant: the fragment files are left behind.
Unlinked_Nothing(files, paths) == files

\* for p in part_paths: p.unlink(missing_ok=True)
Unlinked(files, paths) == [i \in DOMAIN files \ Range(paths) |-> files[i]]

\* Concatenate the fragment files in sorted(part_paths) order, then unlink them.
Assemble ==
  /\ pc = "scanned"
  /\ part_paths # <<>>
  /\ dest' = FileOf(Concat(Sorted(part_paths), partFiles))
  /\ partFiles' = Unlinked(partFiles, part_paths)
  /\ created' = created \cup {Direct}
  /\ result' = "Assembled"
  /\ pc' = "idle"
  /\ UNCHANGED <<remoteDirect, remoteParts, part_idx, part_paths,
                 attempts, lastHead, lastGet, lastRet, lastProgress, nreq, diag,
                 callsLeft, startedWithDest>>
  /\ UNCHANGED <<bvars, avars>>

Next == SkipExisting \/ DirectDownload \/ FetchPart \/ NoPartsFound \/ Assemble

Spec == Init /\ [][Next]_vars

(* ---------------- a long fragment sequence ---------------- *)
\* One call for a target the remote holds as MaxOrderParts fragments; dest may
\* be left over from an earlier run of the script.
InitOrder ==
  /\ remoteDirect \in BOOLEAN /\ remoteParts = MaxOrderParts
  /\ dest \in {NoFile, FileOf(Body(Direct))} /\ partFiles = NoParts
  /\ HandlerIdle /\ callsLeft = 1
  /\ DriverOff /\ AirOff

SpecOrder == InitOrder /\ [][Next]_vars

(* ---------------- process_run and the __main__ loop ---------------- *)
\* The script has been started; no run has been processed yet.
InitBatch ==
  /\ remoteDirect = FALSE /\ remoteParts = 0
  /\ dest = NoFile /\ partFiles = NoParts
  /\ HandlerIdle /\ callsLeft = 0
  /\ driver = "main" /\ run_pos = 0 /\ pat_pos = 0 /\ attempted = {}
  /\ AirOff

\* for i in RUN_IDS: process_run(i) -- enter process_run for the next run id.
MainNextRun ==
  /\ driver = "main"
  /\ run_pos < Len(RUN_IDS)
  /\ run_pos' = run_pos + 1
  /\ pat_pos' = 0
  /\ driver' = "run"
  /\ UNCHANGED <<dvars, attempted, avars>>

\* for pattern in FILE_PATTERNS: call download_direct_or_parts for the next
\* target.  The target's remote files and its destination (absent, or left by
\* an earlier run of the script) are the call's inputs.
ProcessRunCall ==
  /\ driver = "run"
  /\ pc = "idle" /\ callsLeft = 0 /\ result # "raised"
  /\ pat_pos < Len(FILE_PATTERNS)
  /\ pat_pos' = pat_pos + 1
  /\ attempted' = attempted \cup {<<RUN_IDS[run_pos], pat_pos + 1>>}
  /\ remoteDirect' \in BOOLEAN /\ remoteParts' \in 0..MaxParts
  /\ dest' \in {NoFile, FileOf(Body(Direct))} /\ partFiles' = NoParts
  /\ callsLeft' = 1
  /\ result' = "none"
  /\ UNCHANGED <<pc, part_idx, part_paths, attempts, lastHead, lastGet, lastRet,
                 lastProgress, nreq, created, diag, startedWithDest>>
  /\ UNCHANGED <<driver, run_pos, avars>>

\* The pattern loop is exhausted: process_run returns.
ProcessRunReturn ==
  /\ driver = "run"
  /\ pc = "idle" /\ callsLeft = 0 /\ result # "raised"
  /\ pat_pos = Len(FILE_PATTERNS)
  /\ driver' = "main"
  /\ UNCHANGED <<dvars, run_pos, pat_pos, attempted, avars>>

\* Nothing catches the exception of download_direct_or_parts: it leaves
\* process_run and the __main__ loop and ends the script.
Propagate ==
  /\ driver = "run"
  /\ pc = "idle" /\ result = "raised"
  /\ driver' = "crashed"
  /\ UNCHANGED <<dvars, run_pos, pat_pos, attempted, avars>>

\* The run loop is exhausted: print "Download complete!".
MainDone ==
  /\ driver = "main"
  /\ run_pos = Len(RUN_IDS)
  /\ driver' = "finished"
  /\ UNCHANGED <<dvars, run_pos, pat_pos, attempted, avars>>

NextBatch ==
  \/ MainNextRun \/ ProcessRunCall \/ ProcessRunReturn \/ Propagate \/ MainDone
  \/ SkipExisting \/ DirectDownload \/ FetchPart \/ NoPartsFound \/ Assemble

SpecBatch == InitBatch /\ [][NextBatch]_vars

AllTargets == {<<RUN_IDS[r], p>> : r \in 1..Len(RUN_IDS), p \in 1..Len(FILE_PATTERNS)}

(* ---------------- airfrans: download_and_extract ---------------- *)
\* zip is "absent", "good" (a complete archive holding the entries of archive)
\* or "partial" (a truncated download).  The archive, or an empty output
\* directory, may be on disk already.
InitAir ==
  /\ remoteDirect = FALSE /\ remoteParts = 0
  /\ dest = NoFile /\ partFiles = NoParts
  /\ HandlerIdle /\ callsLeft = 0
  /\ DriverOff
  /\ zip \in {"absent", "good"}
  /\ extracted \in {[exists |-> e, entries |-> {}] : e \in BOOLEAN}
  /\ archive \in SUBSET (1..MaxEntries)
  /\ airpc = "idle" /\ airreq = 0 /\ airresult = "none"
  /\ airStart = [zip |-> FALSE, dir |-> FALSE] /\ airExtracts = 0
  /\ airPrev = "none" /\ airCalls = MaxAirCalls

AirCallStart ==
  /\ airpc = "idle" /\ airCalls > 0
  /\ airCalls' = airCalls - 1
  /\ airStart' = [zip |-> zip # "absent", dir |-> extracted.exists]
  /\ airPrev' = airresult
  /\ airExtracts' = 0

\* zip_path or extracted_path exists: "already exists, skipping download".
AirSkipDownload ==
  /\ AirCallStart
  /\ zip # "absent" \/ extracted.exists
  /\ airreq' = 0
  /\ airresult' = "none"
  /\ airpc' = "extract"
  /\ UNCHANGED <<zip, extracted, archive>>
  /\ UNCHANGED <<dvars, bvars>>

\* Neither exists: requests.head, raise_for_status, int(content-length).
AirHead ==
  /\ AirCallStart
  /\ zip = "absent" /\ ~extracted.exists
  /\ \E head \in {"exc", "err", "200len", "200nolen", "200badlen"} :
       /\ airreq' = 1
       /\ airpc' = IF head \in {"200len", "200nolen"} THEN "get" ELSE "idle"
       /\ airresult' = IF head \in {"200len", "200nolen"} THEN "none" ELSE "raised"
  /\ UNCHANGED <<zip, extracted, archive>>
  /\ UNCHANGED <<dvars, bvars>>

\* requests.get, raise_for_status, stream the body into zip_path.
AirGet ==
  /\ airpc = "get"
  /\ \E get \in {"200", "err", "exc", "drop"} :
       /\ airreq' = airreq + 1
       /\ zip' = CASE get = "200" -> "good"
                   [] get = "drop" -> "partial"
                   [] OTHER -> zip
       /\ airpc' = IF get = "200" THEN "extract" ELSE "idle"
       /\ airresult' = IF get = "200" THEN "none" ELSE "raised"
  /\ UNCHANGED <<extracted, archive, airStart, airExtracts, airPrev, airCalls>>
  /\ UNCHANGED <<dvars, bvars>>

\* zip_path exists: extractall into extracted_path, then unlink the archive.
\* extractall creates directories only for the entries it extracts; a
\* truncated archive raises BadZipFile and stays on disk.
AirExtract ==
  /\ airpc = "extract"
  /\ zip # "absent"
  /\ IF zip = "good"
       THEN /\ extracted' = [exists |-> extracted.exists \/ archive # {},
                             entries |-> extracted.entries \cup archive]
            /\ zip' = "absent"
            /\ airExtracts' = airExtracts + 1
            /\ airresult' = "returned"
       ELSE /\ airresult' = "raised"
            /\ UNCHANGED <<extracted, zip, airExtracts>>
  /\ airpc' = "idle"
  /\ UNCHANGED <<archive, airreq, airStart, airPrev, airCalls>>
  /\ UNCHANGED <<dvars, bvars>>

\* zip_path does not exist: nothing to extract, return.
AirReturn ==
  /\ airpc = "extract"
  /\ zip = "absent"
  /\ airresult' = "returned"
  /\ airpc' = "idle"
  /\ UNCHANGED <<zip, extracted, archive, airreq, airStart, airExtracts, airPrev, airCalls>>
  /\ UNCHANGED <<dvars, bvars>>

NextAir == AirSkipDownload \/ AirHead \/ AirGet \/ AirExtract \/ AirReturn

SpecAir == InitAir /\ [][NextAir]_vars

(* ======================= properties ======================= *)
\* The fragment bodies 0 .. n-1 concatenated in ascending numeric order.
RECURSIVE NumericConcat(_)
NumericConcat(n) == IF n = 0 THEN <<>> ELSE NumericConcat(n - 1) \o Body(n - 1)

\* The file the last _download_stream call was given as dest.
LastFile == IF attempts[Len(attempts)] = Direct THEN dest ELSE PartFile(attempts[Len(attempts)])

\* The indexes of the fragments whose chunks are in d.
FragmentsIn(d) == {d[i][1] : i \in 1..Len(d)}

\* C1: a call of download_direct_or_parts that starts while dest exists issues
\* no request, writes and deletes no file and returns AlreadyPresent; so of
\* two consecutive calls only the one that found dest absent does network I/O.
C1_Idempotence ==
  [][(pc = "idle" /\ dest.exists /\ callsLeft' # callsLeft) =>
       /\ nreq' = 0 /\ attempts' = <<>> /\ created' = {}
       /\ dest' = dest /\ partFiles' = partFiles
       /\ result' = "AlreadyPresent" /\ pc' = "idle"]_vars

C1_Witness ==
  /\ result = "AlreadyPresent" /\ startedWithDest /\ nreq = 0
  /\ callsLeft <= MaxCalls - 2 /\ dest.exists

\* C2: after an assembly of N fragments dest holds the fragment contents in
\* ascending numeric index order 0, 1, ..., N-1, for every N >= 1.
C2_FragmentOrdering ==
  result = "Assembled" => dest.data = NumericConcat(Len(part_paths))

\* C3: when the fragment scan ends at the first index N that reports not
\* found, _download_stream has been called for exactly the direct target and
\* then the indexes 0, 1, ..., N in that order, and exactly the N fragments
\* 0 .. N-1 are assembled.
C3_FragmentTermination ==
  (pc = "scanned" \/ result \in {"Assembled", "NotFound"}) =>
    LET N == Len(part_paths) IN
      /\ attempts = <<Direct>> \o Upto(N + 1)
      /\ part_paths = Upto(N)
      /\ lastRet = "false"
      /\ (result = "NotFound" => N = 0)
      /\ (result = "Assembled" =>
            /\ FragmentsIn(dest.data) = 0..(N - 1)
            /\ Len(dest.data) = N * ChunksPerFile)

C3_Witness ==
  /\ result = "Assembled" /\ Len(part_paths) = 3
  /\ attempts = <<Direct, 0, 1, 2, 3>>

\* C4: a direct retrieval that reports not found (404 on the HEAD or on the
\* GET) does not raise and is followed by one fragment scan that starts at
\* index 0; a scan that ends with zero fragments makes the call return
\* NotFound with a diagnostic, without raising and without assembling.
C4_FallbackTrigger ==
  /\ (attempts = <<Direct>> /\ (lastHead = "404" \/ lastGet = "404")) =>
       /\ lastRet = "false" /\ result = "none"
       /\ pc = "parts" /\ part_idx = 0 /\ part_paths = <<>>
  /\ Len(attempts) >= 2 => attempts[2] = 0
  /\ Cardinality({i \in 1..Len(attempts) : attempts[i] = 0}) <= 1
  /\ (pc = "idle" /\ Len(attempts) = 2 /\ lastRet = "false") =>
       /\ result = "NotFound" /\ diag
       /\ ~dest.exists /\ Direct \notin created

C4_Witness ==
  /\ result = "NotFound" /\ diag /\ attempts = <<Direct, 0>>
  /\ lastHead = "other" /\ lastGet = "404"

\* C5: after an assembly dest exists and no fragment file written by the
\* call is left; after NotFound neither dest nor any file written by the call
\* exists.
C5_Cleanup ==
  /\ result = "Assembled" =>
       /\ dest.exists
       /\ \A i \in created \ {Direct} : i \notin DOMAIN partFiles
  /\ result = "NotFound" =>
       /\ ~dest.exists
       /\ \A i \in created : i \notin DOMAIN partFiles

C5_Witness ==
  /\ result = "Assembled" /\ dest.exists
  /\ created = {Direct, 0, 1} /\ DOMAIN partFiles = {}

\* C6 as stated: whatever the HEAD probe answers, a GET that succeeds makes
\* _download_stream write the body to dest and return True.
C6_AnyProbeOutcome ==
  (attempts # <<>> /\ lastGet = "200") =>
    /\ lastRet = "true"
    /\ LastFile = FileOf(Body(attempts[Len(attempts)]))

\* C6 amended: for every HEAD outcome other than status 404 (an exception,
\* another unsuccessful status, a missing or unparsable content-length), a
\* GET that succeeds makes _download_stream write the body to dest and return
\* True; the probe decides only whether progress is reported.
C6_ProbeIndependence ==
  /\ (attempts # <<>> /\ lastGet = "200" /\ lastHead # "404") =>
       /\ lastRet = "true"
       /\ LastFile = FileOf(Body(attempts[Len(attempts)]))
  /\ lastHead # "200len" => lastProgress = 0

C6_Witness ==
  /\ lastHead = "exc" /\ lastGet = "200" /\ lastRet = "true"
  /\ attempts = <<Direct, 0>> /\ PartFile(0) = FileOf(Body(0))

\* C7: when the script has ended, with or without a fatal error in one
\* target, every target of RUN_IDS x FILE_PATTERNS has been attempted.
C7_BatchContinues ==
  driver \in {"finished", "crashed"} => attempted = AllTargets

\* C8: whenever dest exists at the end of a call it holds the complete
\* artifact: the whole direct body or all the fragments in order.
C8_RerunSafety ==
  (pc = "idle" /\ dest.exists) =>
    \/ dest.data = Body(Direct)
    \/ dest.data = NumericConcat(remoteParts)

\* C9: a fragment GET that fails with a non-404 unsuccessful status makes the
\* call raise; dest is not created and no later index is probed.
C9_FragmentFatal ==
  (Len(attempts) >= 2 /\ lastHead # "404" /\ lastGet = "err") =>
    /\ result = "raised" /\ pc = "idle"
    /\ ~dest.exists /\ Direct \notin created
    /\ attempts = <<Direct>> \o Upto(Len(part_paths) + 1)

C9_Witness ==
  /\ result = "raised" /\ lastGet = "err" /\ lastHead = "200len"
  /\ attempts = <<Direct, 0, 1>> /\ ~dest.exists

\* C10: download_and_extract issues requests exactly when neither the zip nor
\* the extracted directory exists at the start of the call; after a normal
\* return the zip does not exist; and the call after a call that returned
\* normally issues no request and extracts nothing.
C10_DownloadOnce ==
  /\ airreq > 0 => (~airStart.zip /\ ~airStart.dir)
  /\ (airpc \in {"get", "extract"} /\ ~airStart.zip /\ ~airStart.dir) => airreq > 0
  /\ airresult = "returned" => zip = "absent"
  /\ airPrev = "returned" => (airreq = 0 /\ airExtracts = 0)

====
